---- MODULE Spec2Model ----
(***************************************************************************)
(* Model of smart-task-app.jsx: the rule-based engine (AIEngine and        *)
(* getAnalytics) applied to a caller-owned task collection, together with  *)
(* the wall clock the engine reads.                                        *)
(*                                                                         *)
(* Time is counted in whole hours on the local clock.  A day is 24 hours,  *)
(* so the local calendar date of an instant t is t \div 24.  The hour is   *)
(* the grain of the model's clock: the clock moving on by one between two  *)
(* readings stands for the real clock passing a deadline or midnight       *)
(* between two Date.now() / new Date() evaluations.                        *)
(* Scores and the completion rate are IEEE 754 binary64 numbers, computed  *)
(* operation by operation with the rounding of the code.                   *)
(***************************************************************************)
EXTENDS Integers, Sequences, FiniteSets, TLC

VARIABLES now, tasks, last, mounted, user, page, filter, err, users, session, stored

vars == <<now, tasks, last, mounted, user, page, filter, err, users, session, stored>>

\* The state of the App component and of the pages, and localStorage.
appVars == <<mounted, user, page, filter, err>>
dbVars == <<users, session, stored>>

(***************************************************************************)
(* Bounds of the model.                                                    *)
(***************************************************************************)
MaxTasks == 3
MaxTicks == 1
MaxTipTasks == 4

(***************************************************************************)
(* Program constants, in hours.                                            *)
(***************************************************************************)
HoursPerDay == 24
UrgentHours == 24
SoonHours == 72
TrendDays == 7

\* The clock at the start: 23:00 on local day 10, one hour before midnight.
StartNow == (10 * HoursPerDay) + 23

\* The clock does not move beyond LastNow.
LastNow == StartNow + MaxTicks

(***************************************************************************)
(* Optional values: a deadline is "" (absent), an unparsable string, or a  *)
(* point in time; completedAt is absent/null or a point in time;           *)
(* estimatedTime is absent or a number.                                    *)
(***************************************************************************)
Absent == [kind |-> "absent", t |-> 0]
Invalid == [kind |-> "invalid", t |-> 0]
At(t) == [kind |-> "at", t |-> t]

\* The number t/2, for an estimatedTime of half an hour.
Halves(t) == [kind |-> "halves", t |-> t]

\* JavaScript truthiness of an optional string / number field.
TruthyString(v) == v.kind # "absent"
TruthyNumber(v) == v.kind \in {"at", "halves"} /\ v.t # 0

(***************************************************************************)
(* The tasks of the model.  All times are relative to StartNow (T), the    *)
(* 23:00 of "today".                                                       *)
(***************************************************************************)
Shape(title, priority, deadline, estimatedTime, completed, createdAt, completedAt) ==
  [title |-> title, description |-> "", priority |-> priority, deadline |-> deadline,
   estimatedTime |-> estimatedTime, completed |-> completed,
   createdAt |-> createdAt, completedAt |-> completedAt]

TaskShapes ==
  LET T == StartNow
      D == HoursPerDay
  IN { Shape("dueNow", "high", At(T), At(2), FALSE, T - 2, Absent),
       Shape("noDeadline", "low", Absent, At(0), FALSE, T - D - 6, Absent),
       Shape("negativeEstimate", "low", At(T + (2 * D)), At(-1), FALSE, T - (6 * D), Absent),
       Shape("dueInADay", "medium", At(T + UrgentHours), At(1), FALSE, T - (3 * D), Absent),
       Shape("dueInThreeDays", "low", At(T + SoonHours), Absent, FALSE, T, Absent),
       Shape("badDeadline", "", Invalid, Absent, FALSE, T - (7 * D), Absent),
       Shape("dayOverdue", "high", At(T - D), At(1), FALSE, T - (2 * D), Absent),
       Shape("doneToday", "medium", Absent, At(1), TRUE, T - D - 1, At(T - 1)),
       Shape("doneYesterday", "low", At(T - 1), At(3), TRUE, T - (6 * D), At(T - D)) }

\* Non-completed tasks of one priority: a deadline two days past, one a day
\* ahead, none, one that is no date, and a pair of different tasks whose
\* scores are equal.  Beside them a high priority task two days past its
\* deadline, whose score is that of "undated" in the reals and one unit in
\* the last place above it in binary64, and a task whose priority is the
\* name of a property every object inherits.
RankShapes ==
  LET T == StartNow
      D == HoursPerDay
  IN { Shape("pastDue", "medium", At(T - (2 * D)), At(1), FALSE, T - (3 * D), Absent),
       Shape("dueLater", "medium", At(T + D), At(1), FALSE, T - (3 * D), Absent),
       Shape("undated", "medium", Absent, At(1), FALSE, T - (3 * D), Absent),
       Shape("unestimated", "medium", At(T + D), Absent, FALSE, T - D, Absent),
       Shape("unparsable", "medium", Invalid, At(1), FALSE, T - D, Absent),
       Shape("highPastDue", "high", At(T - (2 * D)), At(1), FALSE, T - (3 * D), Absent),
       Shape("inheritedPriority", "toString", Absent, Absent, FALSE, T - D, Absent) }

(***************************************************************************)
(* Numbers.  JavaScript numbers are IEEE 754 binary64 values, and every    *)
(* arithmetic operator rounds its exact result to the nearest of them,     *)
(* ties to the even mantissa.  A finite number is                          *)
(*   [k |-> "fin", s, m, e]  =  s * M * 2^e                                *)
(* with the sign s in {1, -1} and the mantissa M = 0 (then e = 0), or      *)
(* 2^52 <= M < 2^53 (a normal number, e >= -1074), or 0 < M < 2^52 and     *)
(* e = -1074 (a subnormal number, below 2^-1022).  M is held in m as four  *)
(* limbs of 14 bits, lowest first, because the integers of TLC are 32      *)
(* bits wide.  [k |-> "inf"] with a sign is an infinity and [k |-> "nan"]  *)
(* is NaN.  Results beyond the largest finite number become an infinity,   *)
(* and results below half of the smallest subnormal number become 0.       *)
(***************************************************************************)
LimbBits == 14
Base == 16384
TwoTo(i) == 2^i
MantissaBits == 53
MaxExponent == 971
MinExponent == -1074

\* Limb i of the natural number N, lowest limb first; 0 beyond its length.
Limb(N, i) == IF i \in DOMAIN N THEN N[i] ELSE 0

\* The 14 bits of N that start at bit p, bit 0 being the lowest.
Window(N, p) ==
  LET a == p \div LimbBits
      r == p % LimbBits
  IN (Limb(N, a + 1) \div TwoTo(r)) + ((Limb(N, a + 2) % TwoTo(r)) * TwoTo(LimbBits - r))

\* N * 2^sl for sl of either sign (bits shifted out at the low end are
\* dropped), on n limbs.
Shifted(N, sl, n) == [j \in 1..n |-> Window(N, (LimbBits * (j - 1)) - sl)]

Bit(N, p) == (Limb(N, (p \div LimbBits) + 1) \div TwoTo(p % LimbBits)) % 2

\* Some bit of N below bit n is set.
LowBitsSet(N, n) ==
  \/ \E i \in 1..(n \div LimbBits) : Limb(N, i) # 0
  \/ Limb(N, (n \div LimbBits) + 1) % TwoTo(n % LimbBits) # 0

\* The number of bits of N: 0 for N = 0.
BitLen(N) ==
  LET used == {i \in DOMAIN N : N[i] # 0}
  IN IF used = {} THEN 0
     ELSE LET h == CHOOSE i \in used : \A j \in used : j <= i
          IN (LimbBits * (h - 1)) + Cardinality({b \in 0..(LimbBits - 1) : TwoTo(b) <= N[h]})

\* X + Y from limb i on, for numbers of at most n limbs, on n + 1 limbs.
RECURSIVE BigAdd(_, _, _, _, _)
BigAdd(X, Y, i, n, carry) ==
  IF i > n THEN <<carry>>
  ELSE LET v == Limb(X, i) + Limb(Y, i) + carry
       IN <<v % Base>> \o BigAdd(X, Y, i + 1, n, v \div Base)

\* X - Y from limb i on for X >= Y, on n limbs.
RECURSIVE BigSub(_, _, _, _, _)
BigSub(X, Y, i, n, borrow) ==
  IF i > n THEN <<>>
  ELSE LET v == Limb(X, i) - Limb(Y, i) - borrow
       IN IF v < 0 THEN <<v + Base>> \o BigSub(X, Y, i + 1, n, 1)
          ELSE <<v>> \o BigSub(X, Y, i + 1, n, 0)

\* The sign of X - Y for numbers of at most i limbs.
RECURSIVE BigCmp(_, _, _)
BigCmp(X, Y, i) ==
  IF i = 0 THEN 0
  ELSE IF Limb(X, i) > Limb(Y, i) THEN 1
  ELSE IF Limb(X, i) < Limb(Y, i) THEN -1
  ELSE BigCmp(X, Y, i - 1)

\* X * q from limb i on, for a limb q and X of n limbs, on n + 1 limbs.
RECURSIVE BigTimesLimb(_, _, _, _, _)
BigTimesLimb(X, q, i, n, carry) ==
  IF i > n THEN <<carry>>
  ELSE LET v == (Limb(X, i) * q) + carry
       IN <<v % Base>> \o BigTimesLimb(X, q, i + 1, n, v \div Base)

RECURSIVE Carried(_, _, _)
Carried(cols, i, carry) ==
  IF i > Len(cols) THEN <<carry>>
  ELSE LET v == cols[i] + carry
       IN <<v % Base>> \o Carried(cols, i + 1, v \div Base)

\* X * Y for two mantissas of four limbs, on eight limbs.
MantissaProduct(X, Y) ==
  LET col(c) == LET pairs == {i \in 1..4 : (c + 1 - i) \in 1..4}
                    term(i) == X[i] * Y[c + 1 - i]
                IN (IF 1 \in pairs THEN term(1) ELSE 0) + (IF 2 \in pairs THEN term(2) ELSE 0)
                   + (IF 3 \in pairs THEN term(3) ELSE 0) + (IF 4 \in pairs THEN term(4) ELSE 0)
  IN Carried([c \in 1..7 |-> col(c)], 1, 0)

ZeroMantissa == <<0, 0, 0, 0>>
NaN == [k |-> "nan", s |-> 1, m |-> ZeroMantissa, e |-> 0]
Inf(s) == [k |-> "inf", s |-> s, m |-> ZeroMantissa, e |-> 0]
SignedZero(s) == [k |-> "fin", s |-> s, m |-> ZeroMantissa, e |-> 0]
Zero == SignedZero(1)
IsZero(x) == x.k = "fin" /\ x.m = ZeroMantissa

\* q + 1 for a mantissa q.
Incremented(q) ==
  IF q[1] < Base - 1 THEN <<q[1] + 1, q[2], q[3], q[4]>>
  ELSE IF q[2] < Base - 1 THEN <<0, q[2] + 1, q[3], q[4]>>
  ELSE IF q[3] < Base - 1 THEN <<0, 0, q[3] + 1, q[4]>>
  ELSE <<0, 0, 0, q[4] + 1>>

\* s * m * 2^x for a mantissa m below 2^53: a zero when m is 0, an infinity
\* beyond the largest finite number.
Finite(s, m, x) ==
  IF m = ZeroMantissa THEN SignedZero(s)
  ELSE IF x > MaxExponent THEN Inf(s)
  ELSE [k |-> "fin", s |-> s, m |-> m, e |-> x]

\* s * r * 2^x for a mantissa r that rounding may have carried up to 2^53.
Normalised(s, r, x) ==
  IF r[4] >= TwoTo(MantissaBits - (3 * LimbBits))
  THEN Finite(s, <<0, 0, 0, TwoTo(MantissaBits - (3 * LimbBits) - 1)>>, x + 1)
  ELSE Finite(s, r, x)

\* N with its sh lowest bits dropped is q; the dropped bits round q up when
\* they are more than half a unit of q, or just a half and q is odd.
RoundsUp(N, sh, q) ==
  /\ sh > 0
  /\ Bit(N, sh - 1) = 1
  /\ (sh > 1 /\ LowBitsSet(N, sh - 1)) \/ q[1] % 2 = 1

\* s * N * 2^e with the sh lowest bits of N rounded away.
RoundedTo(s, N, e, sh) ==
  Normalised(s, IF RoundsUp(N, sh, Shifted(N, -sh, 4))
                THEN Incremented(Shifted(N, -sh, 4))
                ELSE Shifted(N, -sh, 4), e + sh)

\* The binary64 value nearest to s * N * 2^e, ties to even: N keeps its 53
\* highest bits, or fewer when that would take the exponent below
\* MinExponent.
Rounded(s, N, e) ==
  IF BitLen(N) = 0 THEN SignedZero(s)
  ELSE RoundedTo(s, N, e, IF BitLen(N) - MantissaBits >= MinExponent - e
                          THEN BitLen(N) - MantissaBits
                          ELSE MinExponent - e)

\* The number n, an integer of the model.
FromInt(n) ==
  LET a == IF n < 0 THEN -n ELSE n
  IN Rounded(IF n < 0 THEN -1 ELSE 1,
             <<a % Base, (a \div Base) % Base, a \div (Base * Base)>>, 0)

\* The sign of x - y for two numbers that are not NaN; -0 equals +0.
NumCmp(x, y) ==
  LET rank(v) == IF v.k = "inf" THEN 2 * v.s
                 ELSE IF IsZero(v) THEN 0 ELSE v.s
      magnitude == IF x.e # y.e THEN (IF x.e > y.e THEN 1 ELSE -1)
                   ELSE BigCmp(x.m, y.m, 4)
  IN IF rank(x) # rank(y) THEN (IF rank(x) > rank(y) THEN 1 ELSE -1)
     ELSE IF x.k = "inf" \/ IsZero(x) THEN 0
     ELSE x.s * magnitude

\* hi + lo for two finite numbers that are not 0, hi.e >= lo.e, X being the
\* mantissa of hi in units of 2^lo.e and c the sign of X - lo.m.
SumOfAligned(hi, lo, X, c) ==
  IF hi.s = lo.s THEN Rounded(hi.s, BigAdd(X, lo.m, 1, 9, 0), lo.e)
  ELSE IF c = 0 THEN Zero
  ELSE Rounded(IF c > 0 THEN hi.s ELSE lo.s,
               IF c > 0 THEN BigSub(X, lo.m, 1, 9, 0) ELSE BigSub(lo.m, X, 1, 9, 0), lo.e)

\* hi + lo for hi.e >= lo.e: hi when lo is below a half unit of hi.
SumOfOrdered(hi, lo) ==
  IF hi.e - lo.e > 4 * LimbBits THEN hi
  ELSE SumOfAligned(hi, lo, Shifted(hi.m, hi.e - lo.e, 9),
                    BigCmp(Shifted(hi.m, hi.e - lo.e, 9), lo.m, 9))

\* x + y
NumAdd(x, y) ==
  IF x.k = "nan" \/ y.k = "nan" THEN NaN
  ELSE IF x.k = "inf" THEN (IF y.k = "inf" /\ y.s # x.s THEN NaN ELSE x)
  ELSE IF y.k = "inf" THEN y
  ELSE IF IsZero(x) THEN (IF IsZero(y) THEN SignedZero(IF x.s = -1 /\ y.s = -1 THEN -1 ELSE 1) ELSE y)
  ELSE IF IsZero(y) THEN x
  ELSE SumOfOrdered(IF x.e >= y.e THEN x ELSE y, IF x.e >= y.e THEN y ELSE x)

\* x * y
NumMul(x, y) ==
  IF x.k = "nan" \/ y.k = "nan" THEN NaN
  ELSE IF x.k = "inf" \/ y.k = "inf"
  THEN (IF IsZero(x) \/ IsZero(y) THEN NaN ELSE Inf(x.s * y.s))
  ELSE IF IsZero(x) \/ IsZero(y) THEN SignedZero(x.s * y.s)
  ELSE Rounded(x.s * y.s, MantissaProduct(x.m, y.m), x.e + y.e)

\* The next limb of a quotient: the largest q with q * D <= R, found from
\* the estimate qhat >= q.
RECURSIVE QuotientLimb(_, _, _)
QuotientLimb(R, D, qhat) ==
  IF BigCmp(BigTimesLimb(D, qhat, 1, 4, 0), R, 5) > 0 THEN QuotientLimb(R, D, qhat - 1)
  ELSE qhat

\* <<quotient, remainder>> of (R * Base^n) by D, for R < D, limb by limb,
\* behind the limbs Q found so far; D has four limbs and its highest limb
\* is at least Base / 2.
RECURSIVE LongDivision(_, _, _, _)
RECURSIVE DivisionStep(_, _, _, _)
RECURSIVE DivisionWith(_, _, _, _, _)
LongDivision(R, D, n, Q) ==
  IF n = 0 THEN <<Q, R>> ELSE DivisionStep(<<0>> \o R, D, n, Q)

\* The next limb of the quotient of R1 by D, from the estimate that the
\* two highest limbs of R1 and the highest of D give.
DivisionStep(R1, D, n, Q) ==
  DivisionWith(R1, D, n, Q,
               QuotientLimb(R1, D,
                            IF ((Limb(R1, 5) * Base) + Limb(R1, 4)) \div D[4] > Base - 1
                            THEN Base - 1
                            ELSE ((Limb(R1, 5) * Base) + Limb(R1, 4)) \div D[4]))

DivisionWith(R1, D, n, Q, q) ==
  LongDivision(SubSeq(BigSub(R1, BigTimesLimb(D, q, 1, 4, 0), 1, 5, 0), 1, 4), D, n - 1, <<q>> \o Q)

\* The number of <<quotient, remainder>>: the quotient on six limbs with
\* one bit more, set when the remainder is not 0.
QuotientOf(s, qr, e) ==
  Rounded(s, IF qr[2] = ZeroMantissa THEN Shifted(qr[1], 1, 6)
             ELSE [Shifted(qr[1], 1, 6) EXCEPT ![1] = @ + 1], e)

\* s * (A / D) * 2^(e + 57) for two mantissas A and D, A < 2 * D.
Quotient(s, A, D, e) ==
  QuotientOf(s, LongDivision(IF BigCmp(A, D, 4) >= 0 THEN BigSub(A, D, 1, 4, 0) ELSE A, D, 4,
                             <<IF BigCmp(A, D, 4) >= 0 THEN 1 ELSE 0>>), e)

\* x / y: the mantissas are brought to 56 bits each, which moves a subnormal
\* one up by the bits it lacks.
NumDiv(x, y) ==
  IF x.k = "nan" \/ y.k = "nan" THEN NaN
  ELSE IF x.k = "inf" THEN (IF y.k = "inf" THEN NaN ELSE Inf(x.s * y.s))
  ELSE IF y.k = "inf" THEN SignedZero(x.s * y.s)
  ELSE IF IsZero(y) THEN (IF IsZero(x) THEN NaN ELSE Inf(x.s * y.s))
  ELSE IF IsZero(x) THEN SignedZero(x.s * y.s)
  ELSE Quotient(x.s * y.s, Shifted(x.m, (4 * LimbBits) - BitLen(x.m), 4),
                Shifted(y.m, (4 * LimbBits) - BitLen(y.m), 4),
                (x.e + BitLen(x.m)) - (y.e + BitLen(y.m)) - ((4 * LimbBits) + 1))

\* The sign of b - a as Array.prototype.sort reads it: a NaN difference
\* (an operand NaN, or Infinity - Infinity) is read as 0.
SignOfDiff(b, a) ==
  IF a.k = "nan" \/ b.k = "nan" THEN 0
  ELSE NumCmp(b, a)

\* a and b are the same value: both NaN, or equal numbers.
NumEq(a, b) ==
  IF a.k = "nan" \/ b.k = "nan" THEN a.k = b.k
  ELSE NumCmp(a, b) = 0

\* The integer held in three limbs.
IntOf(w) == w[1] + (w[2] * Base) + (w[3] * Base * Base)

\* The fraction that x has below its integer part is a half or more.
HalfOrMore(x) == -x.e >= 1 /\ -x.e <= MantissaBits /\ Bit(x.m, -x.e - 1) = 1

\* Math.round(x) for a finite x below 2^31: the nearest integer, a half
\* rounded towards +Infinity, so that a negative x moves away from 0 only
\* when its fraction is more than a half.
MathRoundNum(x) ==
  IF x.s = 1 THEN IntOf(Shifted(x.m, x.e, 3)) + (IF HalfOrMore(x) THEN 1 ELSE 0)
  ELSE -(IntOf(Shifted(x.m, x.e, 3))
         + (IF HalfOrMore(x) /\ -x.e >= 2 /\ LowBitsSet(x.m, -x.e - 1) THEN 1 ELSE 0))

(***************************************************************************)
(* AIEngine.suggestOrder: the comparator.                                  *)
(***************************************************************************)
MsPerHour == 3600000
MsPerDay == 86400000
One == FromInt(1)

\* The literals 0.4 and 0.2: the binary64 values nearest to 2/5 and 1/5.
PointFour == NumDiv(FromInt(2), FromInt(5))
PointTwo == NumDiv(One, FromInt(5))

\* The names an object literal inherits from Object.prototype: for them
\* the lookup priorityScore[p] finds a function (an object for __proto__),
\* which is truthy and is NaN as a number.
ObjectPrototypeNames ==
  {"constructor", "toString", "toLocaleString", "valueOf", "hasOwnProperty",
   "isPrototypeOf", "propertyIsEnumerable", "__proto__", "__defineGetter__",
   "__defineSetter__", "__lookupGetter__", "__lookupSetter__"}

\* priorityScore[p] || 1, as the number the score is computed from.
priorityScore(p) ==
  IF p = "high" THEN FromInt(3)
  ELSE IF p = "medium" THEN FromInt(2)
  ELSE IF p \in ObjectPrototypeNames THEN NaN
  ELSE One

\* The number an estimatedTime holds.
EstimateNumber(v) ==
  IF v.kind = "halves" THEN NumDiv(FromInt(v.t), FromInt(2)) ELSE FromInt(v.t)

\* new Date(deadline).getTime(), or Infinity without a deadline; then
\* urgency = 1 / ((deadline - Date.now()) / 86400000 + 1).  The difference
\* of the two times is a whole number of milliseconds.
Urgency(t, clock) ==
  IF ~TruthyString(t.deadline) THEN Zero
  ELSE IF t.deadline.kind = "invalid" THEN NaN
  ELSE LET ms == NumMul(FromInt(t.deadline.t - clock), FromInt(MsPerHour))
       IN NumDiv(One, NumAdd(NumDiv(ms, FromInt(MsPerDay)), One))

\* a.estimatedTime ? 1 / a.estimatedTime : 0
Efficiency(t) ==
  IF TruthyNumber(t.estimatedTime)
  THEN NumDiv(One, EstimateNumber(t.estimatedTime))
  ELSE Zero

\* pa * 0.4 + urgency * 0.4 + efficiency * 0.2
Score(t, clock) ==
  NumAdd(NumAdd(NumMul(priorityScore(t.priority), PointFour),
                NumMul(Urgency(t, clock), PointFour)),
         NumMul(Efficiency(t), PointTwo))

\* What a score is computed from.
ScoreInput(t) ==
  [priority |-> t.priority, deadline |-> t.deadline, estimatedTime |-> t.estimatedTime]

\* The scores of the tasks of the model at the clock readings of the model,
\* computed once: also with the estimate 0 and without deadline.
ScoredInputs ==
  LET given == {ScoreInput(t) : t \in TaskShapes \cup RankShapes}
  IN given \cup {[i EXCEPT !.estimatedTime = At(0)] : i \in given}
           \cup {[i EXCEPT !.deadline = Absent] : i \in given}

\* The function f with all its values computed.
Tabulated(f) == IF f = f THEN f ELSE <<>>

KnownScores ==
  Tabulated([key \in ScoredInputs \X (StartNow..LastNow) |-> Score(key[1], key[2])])

\* Score(t, clock), looked up.
ScoreOf(t, clock) == KnownScores[<<ScoreInput(t), clock>>]

\* The comparator (a, b) => scoreB - scoreA, where scoreA is computed from
\* one reading of the clock and scoreB from a later one.
Compare(a, b, clockA, clockB) == SignOfDiff(ScoreOf(b, clockB), ScoreOf(a, clockA))

(***************************************************************************)
(* Array.prototype.sort on a copy.  With a consistent comparator the       *)
(* result is the stable sort; with an inconsistent one ECMAScript leaves   *)
(* the order to the implementation, so every permutation is an outcome.    *)
(***************************************************************************)
\* x placed behind every element that does not sort after it.
RECURSIVE InsertSorted(_, _, _)
InsertSorted(sorted, x, clock) ==
  IF sorted = <<>> THEN <<x>>
  ELSE LET n == Len(sorted)
       IN IF Compare(sorted[n], x, clock, clock) > 0
          THEN Append(InsertSorted(SubSeq(sorted, 1, n - 1), x, clock), sorted[n])
          ELSE Append(sorted, x)

RECURSIVE StableSort(_, _)
StableSort(ts, clock) ==
  IF ts = <<>> THEN <<>>
  ELSE InsertSorted(StableSort(SubSeq(ts, 1, Len(ts) - 1), clock), ts[Len(ts)], clock)

\* The comparator is consistent on ts when every pair compares the same
\* way whichever of the clock readings c1 <= c2 its two scores are taken
\* from, and "compares equal" and "sorts before" are transitive.
ConsistentSigns(I, sign, c1, c2) ==
  /\ \A i, j \in I :
       i # j => /\ sign[c1, c2, i, j] = sign[c1, c1, i, j]
                /\ sign[c2, c2, i, j] = sign[c1, c1, i, j]
  /\ \A i, j, k \in I :
       /\ (sign[c1, c1, i, j] = 0 /\ sign[c1, c1, j, k] = 0) => sign[c1, c1, i, k] = 0
       /\ (sign[c1, c1, i, j] < 0 /\ sign[c1, c1, j, k] < 0) => sign[c1, c1, i, k] < 0

ConsistentComparator(ts, c1, c2) ==
  ConsistentSigns(DOMAIN ts,
                  [a \in {c1, c2}, b \in {c1, c2}, i \in DOMAIN ts, j \in DOMAIN ts |->
                     Compare(ts[i], ts[j], a, b)],
                  c1, c2)

Perms(ts) ==
  { [i \in DOMAIN ts |-> ts[p[i]]] : p \in Permutations(DOMAIN ts) }

\* Variant: the ranking drops completed tasks itself.
suggestOrderPendingOnly(ts, c1, c2) ==
  LET Pending(t) == ~t.completed
      ps == SelectSeq(ts, Pending)
  IN IF ConsistentComparator(ps, c1, c2) THEN {StableSort(ps, c1)} ELSE Perms(ps)

\* [...tasks].sort(comparator): the outcomes when the clock reads c1 at the
\* first comparison and c2 at the last.
suggestOrder(ts, c1, c2) ==
  IF ConsistentComparator(ts, c1, c2) THEN {StableSort(ts, c1)} ELSE Perms(ts)

\* Variant: tasks.sort(comparator), which sorts the array of the caller.
ArrayAfterSortInPlace(given, sorted) == sorted

\* [...tasks].sort(comparator) sorts a copy: the array of the caller is
\* after the call what it was before.
ArrayAfterSuggestOrder(given, sorted) == given

\* The tasks for which the comparator calls Date.now(): those with a
\* deadline, parsable or not.
Dated(ts) == {i \in DOMAIN ts : TruthyString(ts[i].deadline)}

\* The clock readings one sort can make, as the first and the last of them.
\* None when there is nothing to compare or no task has a deadline; a
\* single one when the one comparison of two tasks finds one deadline; two
\* and more when two tasks have deadlines.  The one task with a deadline
\* among three or more is compared once or several times, as the sort of
\* the engine goes, and a second reading can differ from the first.
SortReads(ts, c1, c2) ==
  IF Len(ts) < 2 \/ Dated(ts) = {} THEN IF c2 = c1 THEN {<<>>} ELSE {}
  ELSE IF Cardinality(Dated(ts)) = 1
       THEN (IF c2 = c1 THEN {<<c1>>} ELSE {})
              \cup (IF Len(ts) > 2 THEN {<<c1, c2>>} ELSE {})
       ELSE {<<c1, c2>>}

(***************************************************************************)
(* AIEngine.getNotifications                                               *)
(***************************************************************************)
\* Math.round(n / d) for d > 0: the nearest integer, halves rounded up.
MathRound(n, d) == ((2 * n) + d) \div (2 * d)

\* Variant: the upper end of each window is taken into the window.
ClassifyInclusive(t, clock) ==
  IF t.deadline.kind = "invalid" THEN "none"
  ELSE LET diff == t.deadline.t - clock
       IN IF diff < 0 THEN "overdue"
          ELSE IF diff <= UrgentHours THEN "urgent"
          ELSE IF diff <= SoonHours THEN "soon"
          ELSE "none"

\* diff = (new Date(t.deadline) - now) / 3600000; NaN for an unparsable
\* deadline, and every comparison with NaN is false.
Classify(t, clock) ==
  IF t.deadline.kind = "invalid" THEN "none"
  ELSE LET diff == t.deadline.t - clock
       IN IF diff < 0 THEN "overdue"
          ELSE IF diff < UrgentHours THEN "urgent"
          ELSE IF diff < SoonHours THEN "soon"
          ELSE "none"

AlertOf(t, clock) ==
  LET type == Classify(t, clock)
      diff == t.deadline.t - clock
  IN [task |-> t, type |-> type,
      msg |-> IF type = "overdue" THEN [title |-> t.title, text |-> "is overdue!", n |-> 0]
              ELSE IF type = "urgent" THEN [title |-> t.title, text |-> "due in h", n |-> MathRound(diff, 1)]
              ELSE [title |-> t.title, text |-> "due in d", n |-> MathRound(diff, HoursPerDay)]]

\* Variant: completed tasks are not filtered out.
NotifFilterDeadlineOnly(t) == TruthyString(t.deadline)

NotifFilter(t) == ~t.completed /\ TruthyString(t.deadline)

RECURSIVE MapAlerts(_, _)
MapAlerts(ts, clock) ==
  IF ts = <<>> THEN <<>>
  ELSE LET rest == MapAlerts(Tail(ts), clock)
       IN IF Classify(Head(ts), clock) = "none" THEN rest
          ELSE <<AlertOf(Head(ts), clock)>> \o rest

getNotifications(ts, clock) == MapAlerts(SelectSeq(ts, NotifFilter), clock)

(***************************************************************************)
(* The clock inside one call.  The engine reads the clock wherever it      *)
(* needs the time; the clock may move on by one hour while a call runs.    *)
(* ClockAt is the reading at the k-th place of the call when the clock     *)
(* read `entry` at the first place and moved on just before place          *)
(* `jumpAt` (0: it did not move).                                          *)
(***************************************************************************)
ClockAt(entry, jumpAt, k) ==
  IF jumpAt # 0 /\ k >= jumpAt THEN entry + 1 ELSE entry

\* Date.prototype.toDateString: weekday and calendar date of the local day.
toDateString(t) == [weekday |-> (t \div HoursPerDay) % 7, date |-> t \div HoursPerDay]

RECURSIVE SeqOfSet(_)
SeqOfSet(S) ==
  IF S = {} THEN <<>>
  ELSE LET m == CHOOSE x \in S : \A y \in S : x <= y
       IN <<m>> \o SeqOfSet(S \ {m})

(***************************************************************************)
(* AIEngine.getProductivityTip.  Place i of the call is the overdue test   *)
(* of task i, place Len(ts) + i its completed-today test; each test makes  *)
(* its own new Date().                                                     *)
(***************************************************************************)
IsOverdue(t, clock) ==
  /\ TruthyString(t.deadline)
  /\ t.deadline.kind = "at" /\ t.deadline.t < clock
  /\ ~t.completed

IsCompletedOn(t, clock) ==
  /\ TruthyString(t.completedAt)
  /\ toDateString(t.completedAt.t) = toDateString(clock)

\* Variant: without the rule for a collection with nothing pending.
TipMessageWithoutAllClear(overdue, highPending, completedToday, pending) ==
  IF overdue > 0
    THEN [rule |-> "overdue", text |-> "You have N overdue task(s). Tackle them first!",
          n |-> overdue, plural |-> overdue > 1]
  ELSE IF highPending > 2
    THEN [rule |-> "highPending", text |-> "N high-priority tasks pending. Consider time-blocking your day.",
          n |-> highPending, plural |-> TRUE]
  ELSE IF completedToday >= 3
    THEN [rule |-> "completedToday", text |-> "Great momentum! You've completed N tasks today.",
          n |-> completedToday, plural |-> TRUE]
  ELSE [rule |-> "fallback", text |-> "Try the 2-minute rule: if a task takes under 2 minutes, do it now.",
        n |-> 0, plural |-> FALSE]

TipMessage(overdue, highPending, completedToday, pending) ==
  IF overdue > 0
    THEN [rule |-> "overdue", text |-> "You have N overdue task(s). Tackle them first!",
          n |-> overdue, plural |-> overdue > 1]
  ELSE IF highPending > 2
    THEN [rule |-> "highPending", text |-> "N high-priority tasks pending. Consider time-blocking your day.",
          n |-> highPending, plural |-> TRUE]
  ELSE IF completedToday >= 3
    THEN [rule |-> "completedToday", text |-> "Great momentum! You've completed N tasks today.",
          n |-> completedToday, plural |-> TRUE]
  ELSE IF pending = 0
    THEN [rule |-> "allClear", text |-> "All clear! Perfect time to plan ahead.",
          n |-> 0, plural |-> FALSE]
  ELSE [rule |-> "fallback", text |-> "Try the 2-minute rule: if a task takes under 2 minutes, do it now.",
        n |-> 0, plural |-> FALSE]

getProductivityTip(ts, entry, jumpAt) ==
  LET I == DOMAIN ts
      n == Len(ts)
      overdue == Cardinality({i \in I : IsOverdue(ts[i], ClockAt(entry, jumpAt, i))})
      highPending == Cardinality({i \in I : ts[i].priority = "high" /\ ~ts[i].completed})
      completedToday ==
        Cardinality({i \in I : IsCompletedOn(ts[i], ClockAt(entry, jumpAt, n + i))})
      pending == Cardinality({i \in I : ~ts[i].completed})
  IN TipMessage(overdue, highPending, completedToday, pending)

\* The clock readings of the call, in the order they are made.
TipReads(ts, entry, jumpAt) ==
  LET n == Len(ts)
      places == {i \in 1..n : TruthyString(ts[i].deadline)}
                  \cup {n + i : i \in {j \in 1..n : TruthyString(ts[j].completedAt)}}
      order == SeqOfSet(places)
  IN [k \in DOMAIN order |-> ClockAt(entry, jumpAt, order[k])]

(***************************************************************************)
(* getAnalytics.  Place i + 1 of the call is the new Date() of trend       *)
(* entry i (i = 0..6).                                                     *)
(***************************************************************************)
\* d = new Date(); d.setDate(d.getDate() - (6 - i)); d.toDateString()
last7(entry, jumpAt) ==
  [k \in 1..TrendDays |->
     toDateString(ClockAt(entry, jumpAt, k) - ((TrendDays - k) * HoursPerDay))]

\* tasks.filter(...).length, for the filters of getAnalytics.
CountCompletedOn(ts, day) ==
  Cardinality({i \in DOMAIN ts : /\ TruthyString(ts[i].completedAt)
                                 /\ toDateString(ts[i].completedAt.t) = day})

CountAddedOn(ts, day) ==
  Cardinality({i \in DOMAIN ts : toDateString(ts[i].createdAt) = day})

CountPriority(ts, p) == Cardinality({i \in DOMAIN ts : ts[i].priority = p})

CountCompleted(ts) == Cardinality({i \in DOMAIN ts : ts[i].completed})

completionTrend(ts, days) ==
  [k \in DOMAIN days |->
     [day |-> days[k].weekday,
      completed |-> CountCompletedOn(ts, days[k]),
      added |-> CountAddedOn(ts, days[k])]]

\* Variant: the Low bucket takes every task of the lowest scoring tier,
\* as priorityScore does.
byPriorityLowestTier(ts) ==
  << [name |-> "High", value |-> CountPriority(ts, "high")],
     [name |-> "Medium", value |-> CountPriority(ts, "medium")],
     [name |-> "Low",
      value |-> Cardinality({i \in DOMAIN ts : priorityScore(ts[i].priority) = One})] >>

byPriority(ts) ==
  << [name |-> "High", value |-> CountPriority(ts, "high")],
     [name |-> "Medium", value |-> CountPriority(ts, "medium")],
     [name |-> "Low", value |-> CountPriority(ts, "low")] >>

\* total ? Math.round((completed / total) * 100) : 0
Rate(completed, total) ==
  IF total # 0
  THEN MathRoundNum(NumMul(NumDiv(FromInt(completed), FromInt(total)), FromInt(100)))
  ELSE 0

getAnalytics(ts, entry, jumpAt) ==
  LET total == Len(ts)
      completed == CountCompleted(ts)
  IN [completionTrend |-> completionTrend(ts, last7(entry, jumpAt)),
      byPriority |-> byPriority(ts),
      total |-> total,
      completed |-> completed,
      rate |-> Rate(completed, total)]

AnalyticsReads(entry, jumpAt) ==
  [k \in 1..TrendDays |-> ClockAt(entry, jumpAt, k)]

(***************************************************************************)
(* The task collections the engine is applied to.  A task is built from a  *)
(* shape; shapes repeat freely in a collection, ids are by position.       *)
(***************************************************************************)
WithId(shape, id) ==
  [id |-> id, title |-> shape.title, description |-> shape.description,
   priority |-> shape.priority, deadline |-> shape.deadline,
   estimatedTime |-> shape.estimatedTime, completed |-> shape.completed,
   createdAt |-> shape.createdAt, completedAt |-> shape.completedAt]

TaskLists ==
  UNION { { [i \in 1..n |-> WithId(f[i], i)] : f \in [1..n -> TaskShapes] } : n \in 0..MaxTasks }

Idle == [op |-> "none", input |-> <<>>, entry |-> 0, reads |-> <<>>, out |-> <<>>]

\* null: no user, no session.
Null == [kind |-> "null"]

\* localStorage without any stp_tasks_ key.
NoKeys == [k \in {} |-> <<>>]

\* The App before its first render, on an empty localStorage: the engine
\* is applied to collections as such.
AppNotStarted ==
  /\ mounted = FALSE
  /\ user = Null
  /\ page = "dashboard"
  /\ filter = "all"
  /\ err = ""
  /\ users = <<>>
  /\ session = Null
  /\ stored = NoKeys

Init ==
  /\ now = StartNow
  /\ tasks \in TaskLists
  /\ last = Idle
  /\ AppNotStarted

\* The clock moves on between calls.
Tick ==
  /\ last = Idle
  /\ now < LastNow
  /\ now' = now + 1
  /\ UNCHANGED <<tasks, last>>
  /\ UNCHANGED <<appVars, dbVars>>

NotCompleted(t) == ~t.completed

\* AIEngine.suggestOrder applied to the collection as it is.
CallSuggestOrder ==
  \E c2 \in {now, now + 1} :
    /\ last = Idle
    /\ c2 <= LastNow
    /\ \E out \in suggestOrder(tasks, now, c2), reads \in SortReads(tasks, now, c2) :
         /\ last' = [op |-> "suggestOrder", input |-> tasks, entry |-> now,
                     reads |-> reads, out |-> out]
         /\ tasks' = ArrayAfterSuggestOrder(tasks, out)
    /\ now' = c2
    /\ UNCHANGED <<appVars, dbVars>>

\* AISuggestionsPage: pending = tasks.filter(t => !t.completed);
\* suggested = AIEngine.suggestOrder(pending).
AISuggestionsPage ==
  LET pending == SelectSeq(tasks, NotCompleted)
  IN \E c2 \in {now, now + 1} :
       /\ last = Idle
       /\ c2 <= LastNow
       /\ \E out \in suggestOrder(pending, now, c2), reads \in SortReads(pending, now, c2) :
            last' = [op |-> "AISuggestionsPage", input |-> pending, entry |-> now,
                     reads |-> reads, out |-> out]
       /\ now' = c2
       /\ UNCHANGED tasks
       /\ UNCHANGED <<appVars, dbVars>>

CallGetNotifications ==
  /\ last = Idle
  /\ last' = [op |-> "getNotifications", input |-> tasks, entry |-> now,
              reads |-> <<now>>, out |-> getNotifications(tasks, now)]
  /\ UNCHANGED <<now, tasks>>
  /\ UNCHANGED <<appVars, dbVars>>

\* The places of a call before which the clock can move on: any but the first.
JumpPlaces(n) == IF now < LastNow THEN {0} \cup (2..n) ELSE {0}

CallGetProductivityTip ==
  \E jumpAt \in JumpPlaces(2 * Len(tasks)) :
    /\ last = Idle
    /\ last' = [op |-> "getProductivityTip", input |-> tasks, entry |-> now,
                reads |-> TipReads(tasks, now, jumpAt),
                out |-> getProductivityTip(tasks, now, jumpAt)]
    /\ now' = IF jumpAt = 0 THEN now ELSE now + 1
    /\ UNCHANGED tasks
    /\ UNCHANGED <<appVars, dbVars>>

CallGetAnalytics ==
  \E jumpAt \in JumpPlaces(TrendDays) :
    /\ last = Idle
    /\ last' = [op |-> "getAnalytics", input |-> tasks, entry |-> now,
                reads |-> AnalyticsReads(now, jumpAt),
                out |-> getAnalytics(tasks, now, jumpAt)]
    /\ now' = IF jumpAt = 0 THEN now ELSE now + 1
    /\ UNCHANGED tasks
    /\ UNCHANGED <<appVars, dbVars>>

\* The caller has used the derived view; the engine keeps nothing of a call.
Discard ==
  /\ last # Idle
  /\ last' = Idle
  /\ UNCHANGED <<now, tasks>>
  /\ UNCHANGED <<appVars, dbVars>>

Next ==
  \/ Tick
  \/ Discard
  \/ CallSuggestOrder
  \/ AISuggestionsPage
  \/ CallGetNotifications
  \/ CallGetProductivityTip
  \/ CallGetAnalytics

Spec == Init /\ [][Next]_vars

(***************************************************************************)
(* getProductivityTip on its own, on collections of up to MaxTipTasks      *)
(* tasks: three completions of today next to a task that is due now.       *)
(***************************************************************************)
TipShapes ==
  { s \in TaskShapes : s.title \in {"dueNow", "doneToday", "dayOverdue"} }

TipLists ==
  UNION { { [i \in 1..n |-> WithId(f[i], i)] : f \in [1..n -> TipShapes] } : n \in 0..MaxTipTasks }

InitTip ==
  /\ now = StartNow
  /\ tasks \in TipLists
  /\ last = Idle
  /\ AppNotStarted

NextTip ==
  \/ Tick
  \/ Discard
  \/ CallGetProductivityTip

SpecTip == InitTip /\ [][NextTip]_vars

(***************************************************************************)
(* AIEngine.suggestOrder on its own, on the collections of RankShapes.     *)
(***************************************************************************)
RankLists ==
  UNION { { [i \in 1..n |-> WithId(f[i], i)] : f \in [1..n -> RankShapes] } : n \in 0..MaxTasks }

InitRank ==
  /\ now = StartNow
  /\ tasks \in RankLists
  /\ last = Idle
  /\ AppNotStarted

\* AIEngine.suggestOrder(tasks) called a second time, the collection
\* unchanged and the clock where it was at the first call.
CallSuggestOrderAgain ==
  /\ last.op = "suggestOrder"
  /\ last.entry = now
  /\ \E out \in suggestOrder(tasks, now, now), reads \in SortReads(tasks, now, now) :
       /\ last' = [op |-> "suggestOrderAgain", input |-> tasks, entry |-> now,
                   reads |-> reads, out |-> out,
                   first |-> last.out]
       /\ tasks' = ArrayAfterSuggestOrder(tasks, out)
  /\ UNCHANGED now
  /\ UNCHANGED <<appVars, dbVars>>

\* AIEngine.suggestOrder(AIEngine.suggestOrder(tasks)), the clock where it
\* was at the inner call.
CallSuggestOrderOnResult ==
  /\ last.op = "suggestOrder"
  /\ last.entry = now
  /\ \E out \in suggestOrder(last.out, now, now), reads \in SortReads(last.out, now, now) :
       last' = [op |-> "suggestOrderOnResult", input |-> last.out, entry |-> now,
                reads |-> reads, out |-> out,
                first |-> last.out]
  /\ UNCHANGED <<now, tasks>>
  /\ UNCHANGED <<appVars, dbVars>>

NextRank ==
  \/ Tick
  \/ Discard
  \/ CallSuggestOrder
  \/ AISuggestionsPage
  \/ CallSuggestOrderAgain
  \/ CallSuggestOrderOnResult

SpecRank == InitRank /\ [][NextRank]_vars

(***************************************************************************)
(* getAnalytics on its own, on collections of up to MaxRateTasks tasks of   *)
(* which some are completed: completed / total is a binary64 quotient, and  *)
(* 23 of 40 is the first whose hundredfold falls short of a half.           *)
(***************************************************************************)
MaxRateTasks == 40

\* n tasks, the first k of them completed.
RateList(n, k) ==
  LET done == CHOOSE s \in TaskShapes : s.title = "doneToday"
      open == CHOOSE s \in TaskShapes : s.title = "noDeadline"
  IN [i \in 1..n |-> WithId(IF i <= k THEN done ELSE open, i)]

InitRate ==
  /\ now = StartNow
  /\ \E n \in 0..MaxRateTasks, k \in 0..MaxRateTasks :
       /\ k <= n
       /\ tasks = RateList(n, k)
  /\ last = Idle
  /\ AppNotStarted

NextRate ==
  \/ Discard
  \/ CallGetAnalytics

SpecRate == InitRate /\ [][NextRate]_vars

(***************************************************************************)
(* DB: the lists and records kept in localStorage as JSON.                 *)
(***************************************************************************)
\* JSON.parse(JSON.stringify(list)): every field of a task is a string, a
\* finite number, a boolean or null and comes back as it went; a field that
\* is undefined is dropped, which reads back as absent.
parseStringify(list) ==
  [i \in DOMAIN list |->
     [id |-> list[i].id, title |-> list[i].title,
      description |-> list[i].description, priority |-> list[i].priority,
      deadline |-> list[i].deadline, estimatedTime |-> list[i].estimatedTime,
      completed |-> list[i].completed, createdAt |-> list[i].createdAt,
      completedAt |-> list[i].completedAt]]

\* The read of one fixed key, whatever the user id.
getTasksOfDemo(uid) == IF "demo" \in DOMAIN stored THEN stored["demo"] ELSE <<>>

\* DB.getTasks(uid): [] when there is no stp_tasks_<uid> key.
getTasks(uid) == IF uid \in DOMAIN stored THEN stored[uid] ELSE <<>>

\* localStorage after DB.saveTasks(uid, list).
saveTasks(store, uid, list) ==
  [k \in (DOMAIN store) \cup {uid} |->
     IF k = uid THEN parseStringify(list) ELSE store[k]]

(***************************************************************************)
(* App: the mount effect with the demo seed, login and logout.             *)
(***************************************************************************)
DemoEmail == "demo@task.com"

\* The UTF-16 code units of a string of printable ASCII characters: a title
\* is held as its code units, which String.prototype.trim reads.
Units(str) ==
  LET low == " !\"#$%&'()*+,-./0123456789:;<=>?@ABCDEFGHIJKLMNOPQRSTUVWXYZ[\\]^_"
      high == "abcdefghijklmnopqrstuvwxyz{|}~"
      Code(c) == IF \E k \in 1..Len(low) : SubSeq(low, k, k) = c
                 THEN 31 + CHOOSE k \in 1..Len(low) : SubSeq(low, k, k) = c
                 ELSE 96 + CHOOSE k \in 1..Len(high) : SubSeq(high, k, k) = c
  IN [i \in 1..Len(str) |-> Code(SubSeq(str, i, i))]

\* const demo = { id: "demo", ..., createdAt: new Date().toISOString() }
demo(clock) ==
  [id |-> "demo", name |-> "Demo User", email |-> DemoEmail, pass |-> "demo123",
   createdAt |-> clock]

\* The sampleTasks literal.  Its clock readings, in evaluation order, are
\* places 2..10 of the mount effect (place 1 is demo.createdAt): the
\* deadline and createdAt of t1 and of t2, completedAt and then createdAt
\* of t3, createdAt of t4, completedAt and then createdAt of t5.
sampleTasks(entry, jumpAt) ==
  LET C(k) == ClockAt(entry, jumpAt, k)
  IN << [id |-> "t1", title |-> Units("Design landing page mockup"), description |-> "",
         priority |-> "high", deadline |-> At(C(2) + HoursPerDay),
         estimatedTime |-> At(4), completed |-> FALSE,
         createdAt |-> C(3), completedAt |-> Absent],
        [id |-> "t2", title |-> Units("Write project proposal"), description |-> "",
         priority |-> "high", deadline |-> At(C(4) + (2 * HoursPerDay)),
         estimatedTime |-> At(2), completed |-> FALSE,
         createdAt |-> C(5), completedAt |-> Absent],
        [id |-> "t3", title |-> Units("Review pull requests"), description |-> "",
         priority |-> "medium", deadline |-> Absent,
         estimatedTime |-> At(1), completed |-> TRUE,
         createdAt |-> C(7), completedAt |-> At(C(6))],
        [id |-> "t4", title |-> Units("Update documentation"), description |-> "",
         priority |-> "low", deadline |-> Absent,
         estimatedTime |-> At(3), completed |-> FALSE,
         createdAt |-> C(8), completedAt |-> Absent],
        [id |-> "t5", title |-> Units("Team standup notes"), description |-> "",
         priority |-> "low", deadline |-> Absent,
         estimatedTime |-> Halves(1), completed |-> TRUE,
         createdAt |-> C(10), completedAt |-> At(C(9))] >>

SeedPlaces == 10

HasDemo(us) == \E i \in DOMAIN us : us[i].email = DemoEmail

\* The effect App runs once, after its first render.
Mount ==
  /\ ~mounted
  /\ mounted' = TRUE
  /\ IF session # Null
     THEN /\ user' = session
          /\ tasks' = getTasks(session.id)
          /\ IF ~HasDemo(users)
             THEN \E jumpAt \in JumpPlaces(SeedPlaces) :
                    /\ users' = Append(users, demo(ClockAt(now, jumpAt, 1)))
                    /\ stored' = saveTasks(stored, "demo", sampleTasks(now, jumpAt))
                    /\ now' = IF jumpAt = 0 THEN now ELSE now + 1
             ELSE UNCHANGED <<users, stored, now>>
     ELSE /\ IF ~HasDemo(users)
             THEN users' = Append(users, demo(now))
             ELSE UNCHANGED users
          /\ UNCHANGED <<user, tasks, stored, now>>
  /\ last' = [op |-> "mount",
              input |-> [users |-> users, session |-> session,
                         shown |-> IF last.op = "reload" THEN last.input ELSE Null],
              entry |-> now, reads |-> <<>>, out |-> <<>>]
  /\ UNCHANGED <<page, filter, err, session>>

\* App.handleLogin, the onLogin of AuthPage.
handleLogin(u) ==
  /\ user' = u
  /\ tasks' = getTasks(u.id)

\* What is typed into the form of AuthPage.
Names == {"", "Ann"}
Emails == {"", "ann@task.com", DemoEmail}
Passwords == {"", "secret", "demo123"}

\* users.find(u => u.name === email), the lookup on the wrong field.
FindByName(us, email) ==
  LET hits == {i \in DOMAIN us : us[i].name = email}
  IN IF hits = {} THEN Null ELSE us[CHOOSE i \in hits : \A j \in hits : i <= j]

\* users.find(u => u.email === email): the first such user, or none.
FindByEmail(us, email) ==
  LET hits == {i \in DOMAIN us : us[i].email = email}
  IN IF hits = {} THEN Null ELSE us[CHOOSE i \in hits : \A j \in hits : i <= j]

\* users.find(u => u.email === email && u.pass === pass)
FindByEmailAndPass(us, email, pass) ==
  LET hits == {i \in DOMAIN us : us[i].email = email /\ us[i].pass = pass}
  IN IF hits = {} THEN Null ELSE us[CHOOSE i \in hits : \A j \in hits : i <= j]

\* AuthPage.handleSubmit; AuthPage is what App renders without a user.
handleSubmit ==
  \E tab \in {"login", "register"}, name \in Names, email \in Emails,
     pass \in Passwords, c2 \in {now, now + 1} :
    LET Reject(message) ==
          /\ err' = message
          /\ last' = [op |-> "handleSubmit", input |-> [tab |-> tab, name |-> name, email |-> email, pass |-> pass],
                      entry |-> now, reads |-> <<>>, out |-> "rejected",
                      before |-> [users |-> users, session |-> session, user |-> user]]
          /\ c2 = now
          /\ UNCHANGED <<now, tasks, user, users, session>>
        Accept(u) ==
          /\ err' = ""
          /\ session' = u
          /\ handleLogin(u)
          /\ last' = [op |-> "handleSubmit", input |-> [tab |-> tab, name |-> name, email |-> email, pass |-> pass],
                      entry |-> now, reads |-> <<>>, out |-> "accepted",
                      before |-> [users |-> users, session |-> session, user |-> user]]
    IN /\ mounted
       /\ user = Null
       /\ c2 <= LastNow
       /\ IF email = "" \/ pass = "" THEN Reject("Please fill in all fields.")
          ELSE IF tab = "register"
          THEN IF name = "" THEN Reject("Name is required.")
               ELSE IF FindByEmail(users, email) # Null
               THEN Reject("Email already registered.")
               ELSE LET u == [id |-> ToString(now), name |-> name, email |-> email,
                              pass |-> pass, createdAt |-> c2]
                    IN /\ users' = Append(users, u)
                       /\ now' = c2
                       /\ Accept(u)
          ELSE LET u == FindByEmailAndPass(users, email, pass)
               IN IF u = Null THEN Reject("Invalid email or password.")
                  ELSE /\ c2 = now
                       /\ UNCHANGED <<now, users>>
                       /\ Accept(u)
       /\ UNCHANGED <<mounted, page, filter, stored>>

\* App.handleLogout, the Sign Out button of the sidebar.
handleLogout ==
  /\ mounted
  /\ user # Null
  /\ session' = Null
  /\ user' = Null
  /\ tasks' = <<>>
  /\ page' = "dashboard"
  /\ filter' = "all"
  /\ last' = [op |-> "handleLogout", input |-> user, entry |-> now,
              reads |-> <<>>, out |-> <<>>]
  /\ UNCHANGED <<now, mounted, err, users, stored>>

\* setPage(n.id), the navigation buttons of the sidebar.  DashboardPage is
\* rendered on the page "dashboard" only: leaving it drops its state, and
\* it starts again with the filter "all".
setPage ==
  \E id \in {"dashboard", "analytics", "ai"} :
    /\ mounted
    /\ user # Null
    /\ page # id
    /\ page' = id
    /\ filter' = "all"
    /\ UNCHANGED <<now, tasks, last, mounted, user, err, users, session, stored>>

\* The page is loaded again: the state of App and of its pages starts from
\* the useState initial values, localStorage stays, and the effect of App
\* is due once more.
reload ==
  /\ mounted
  /\ mounted' = FALSE
  /\ user' = Null
  /\ tasks' = <<>>
  /\ page' = "dashboard"
  /\ filter' = "all"
  /\ err' = ""
  /\ last' = [op |-> "reload", input |-> [user |-> user, tasks |-> tasks],
              entry |-> now, reads |-> <<>>, out |-> <<>>]
  /\ UNCHANGED <<now, dbVars>>

\* The clock moves on while the App waits for the user.
Wait ==
  /\ now < LastNow
  /\ now' = now + 1
  /\ UNCHANGED <<tasks, last, appVars, dbVars>>

\* localStorage when the page is loaded: empty; or as an earlier visit left
\* it, with the registered user ann and with or without her session; or
\* ann and her session alone, the stp_users entry of the demo account gone.
ann == [id |-> ToString(StartNow - HoursPerDay), name |-> "Ann",
        email |-> "ann@task.com", pass |-> "secret", createdAt |-> StartNow - HoursPerDay]

\* A list as ann left it at an earlier visit, stored under her key.
annsTasks ==
  << [id |-> ToString(StartNow - 2), title |-> Units("Book flights"), description |-> "",
      priority |-> "medium", deadline |-> Absent, estimatedTime |-> At(0),
      completed |-> FALSE, createdAt |-> StartNow - 2, completedAt |-> Absent] >>

InitApp ==
  /\ now = StartNow
  /\ tasks = <<>>
  /\ last = Idle
  /\ mounted = FALSE
  /\ user = Null
  /\ page = "dashboard"
  /\ filter = "all"
  /\ err = ""
  /\ \/ users = <<>> /\ session = Null
     \/ users = <<demo(StartNow - HoursPerDay)>> /\ session = Null
     \/ users = <<demo(StartNow - HoursPerDay), ann>> /\ session \in {Null, ann}
     \/ users = <<ann>> /\ session = ann
  /\ stored = IF \E i \in DOMAIN users : users[i] = ann
              THEN saveTasks(NoKeys, ann.id, annsTasks)
              ELSE NoKeys

NextApp ==
  \/ Wait
  \/ Mount
  \/ handleSubmit
  \/ handleLogout
  \/ setPage
  \/ reload

SpecApp == InitApp /\ [][NextApp]_vars

(***************************************************************************)
(* DashboardPage: the task list of the signed-in user and its four         *)
(* operations.  Each one ends in save(list), which sets the list of the    *)
(* App and writes it to localStorage.                                      *)
(***************************************************************************)
MaxOps == 3

\* What the form of TaskModal holds when Save is pressed: " Call bank "
\* between a no-break space (U+00A0) and a tab, and a title of a space and
\* an ideographic space (U+3000).  estimatedTime is the text of a number
\* input, "" when nothing was typed.
Forms ==
  { [title |-> <<160>> \o Units(" Call bank ") \o <<9>>,
     description |-> "before noon", priority |-> "high",
     deadline |-> At(StartNow + HoursPerDay), estimatedTime |-> Absent],
    [title |-> <<32, 12288>>, description |-> "", priority |-> "low",
     deadline |-> Absent, estimatedTime |-> At(1)] }

\* What the form holds when a task was opened for editing and Save is
\* pressed: the fields as they were filled in for the task, or new ones.
EditForms ==
  Forms \cup
  { [title |-> Units("Pay rent"), description |-> "", priority |-> "low",
     deadline |-> Absent, estimatedTime |-> At(2)] }

\* String.prototype.trim: title from its first to its last code unit that
\* is not white space, the empty string when it has none.  The white space
\* is the WhiteSpace and LineTerminator code points of the language: tab,
\* line feed, vertical tab, form feed, carriage return, space, no-break
\* space, U+1680, U+2000 to U+200A, U+2028, U+2029, U+202F, U+205F,
\* U+3000 and U+FEFF.
trim(title) ==
  LET kept == {i \in DOMAIN title :
                 title[i] \notin ({9, 10, 11, 12, 13, 32, 160, 5760, 8232, 8233,
                                   8239, 8287, 12288, 65279} \cup (8192..8202))}
  IN IF kept = {} THEN <<>>
     ELSE SubSeq(title, CHOOSE i \in kept : \A j \in kept : i <= j,
                 CHOOSE i \in kept : \A j \in kept : j <= i)

\* Number(estimatedTime) || 0
NumberOrZero(v) == IF TruthyNumber(v) THEN v ELSE At(0)

\* The data TaskModal.handleSave hands to onSave.
handleSave(form) ==
  [title |-> trim(form.title), description |-> form.description,
   priority |-> form.priority, deadline |-> form.deadline,
   estimatedTime |-> NumberOrZero(form.estimatedTime)]

\* { ...t, ...data }
Merge(t, data) ==
  [t EXCEPT !.title = data.title, !.description = data.description,
            !.priority = data.priority, !.deadline = data.deadline,
            !.estimatedTime = data.estimatedTime]

\* Variant: toggling a task writes its createdAt anew.
ToggledStampingCreatedAt(t, clock) ==
  [t EXCEPT !.completed = ~t.completed,
            !.completedAt = IF ~t.completed THEN At(clock) ELSE Absent,
            !.createdAt = clock]

\* Variant: un-completing a task leaves its completedAt where it was.
ToggledKeepingCompletedAt(t, clock) ==
  [t EXCEPT !.completed = ~t.completed,
            !.completedAt = IF ~t.completed THEN At(clock) ELSE t.completedAt]

\* { ...t, completed: !t.completed,
\*   completedAt: !t.completed ? new Date().toISOString() : null }
Toggled(t, clock) ==
  [t EXCEPT !.completed = ~t.completed,
            !.completedAt = IF ~t.completed THEN At(clock) ELSE Absent]

ListOps == {"addTask", "updateTask", "deleteTask", "toggleTask"}

\* The number of list operations since the list was loaded.
OpsDone == IF last.op \in ListOps THEN last.n ELSE 0

DashboardShown ==
  /\ mounted
  /\ user # Null
  /\ page = "dashboard"
  /\ OpsDone < MaxOps

\* save(list): setTasks(list); DB.saveTasks(userId, list)
save(list) ==
  /\ tasks' = list
  /\ stored' = saveTasks(stored, user.id, list)

\* TaskModal.handleSave with onSave = addTask.  The id is made from
\* Date.now(), createdAt from a new Date() after it.
addTask ==
  \E form \in Forms, c2 \in {now, now + 1} :
    LET data == handleSave(form)
        t == [id |-> ToString(now), title |-> data.title,
              description |-> data.description, priority |-> data.priority,
              deadline |-> data.deadline, estimatedTime |-> data.estimatedTime,
              completed |-> FALSE, createdAt |-> c2, completedAt |-> Absent]
        list == Append(tasks, t)
    IN /\ DashboardShown
       /\ c2 <= LastNow
       /\ data.title # <<>>
       /\ save(list)
       /\ now' = c2
       /\ last' = [op |-> "addTask", input |-> tasks, entry |-> now,
                   reads |-> <<now, c2>>, out |-> list, id |-> t.id,
                   n |-> OpsDone + 1, store |-> stored]
       /\ UNCHANGED <<appVars, users, session>>

\* TaskModal.handleSave with onSave = updateTask, the modal opened on the
\* task at place m of the list.
updateTask ==
  \E m \in DOMAIN tasks, form \in EditForms :
    LET data == handleSave(form)
        modal == tasks[m]
        list == [k \in DOMAIN tasks |->
                   IF tasks[k].id = modal.id THEN Merge(tasks[k], data) ELSE tasks[k]]
    IN /\ DashboardShown
       /\ data.title # <<>>
       /\ save(list)
       /\ last' = [op |-> "updateTask", input |-> tasks, entry |-> now,
                   reads |-> <<>>, out |-> list, id |-> modal.id,
                   n |-> OpsDone + 1, store |-> stored]
       /\ UNCHANGED <<now, appVars, users, session>>

\* deleteTask(task.id), the button of the task at place m.
deleteTask ==
  \E m \in DOMAIN tasks :
    LET id == tasks[m].id
        Others(t) == t.id # id
        list == SelectSeq(tasks, Others)
    IN /\ DashboardShown
       /\ save(list)
       /\ last' = [op |-> "deleteTask", input |-> tasks, entry |-> now,
                   reads |-> <<>>, out |-> list, id |-> id,
                   n |-> OpsDone + 1, store |-> stored]
       /\ UNCHANGED <<now, appVars, users, session>>

\* toggleTask(task.id), the checkbox of the task at place m.  Place k of
\* the call is the callback of map for the task at place k of the list.
toggleTask ==
  \E m \in DOMAIN tasks, jumpAt \in JumpPlaces(Len(tasks)) :
    LET id == tasks[m].id
        list == [k \in DOMAIN tasks |->
                   IF tasks[k].id = id
                   THEN Toggled(tasks[k], ClockAt(now, jumpAt, k))
                   ELSE tasks[k]]
        exit == IF jumpAt = 0 THEN now ELSE now + 1
    IN /\ DashboardShown
       /\ save(list)
       /\ now' = exit
       /\ last' = [op |-> "toggleTask", input |-> tasks, entry |-> now,
                   reads |-> <<now, exit>>, out |-> list, id |-> id,
                   n |-> OpsDone + 1, store |-> stored]
       /\ UNCHANGED <<appVars, users, session>>

\* The dashboard of a signed-in user: ann with no task yet, or the demo
\* user with the sample tasks as the seed of an earlier load wrote them,
\* the clock of that load having moved on at none of its readings or
\* before the createdAt of t3, which is read after its completedAt.
\* localStorage holds the list of the other user as well.
InitCrud ==
  /\ now = StartNow
  /\ last = Idle
  /\ mounted = TRUE
  /\ page = "dashboard"
  /\ filter = "all"
  /\ err = ""
  /\ users = <<ann, demo(StartNow - 1)>>
  /\ \/ /\ user = ann
        /\ tasks = <<>>
        /\ stored = saveTasks(NoKeys, "demo", sampleTasks(StartNow - 1, 0))
     \/ /\ user = demo(StartNow - 1)
        /\ \E jumpAt \in {0, 7} :
             tasks = sampleTasks(StartNow - 1, jumpAt)
        /\ stored = saveTasks(saveTasks(NoKeys, ann.id, annsTasks), "demo", tasks)
  /\ session = user

NextCrud ==
  \/ Wait
  \/ addTask
  \/ updateTask
  \/ deleteTask
  \/ toggleTask

SpecCrud == InitCrud /\ [][NextCrud]_vars

\* The dashboard over a list that the App itself has written: nothing yet
\* for ann or for the demo user, whose stp_tasks_demo the mount effect
\* leaves alone when it follows a load without a session, or the list
\* that ann made with addTask at an earlier visit.
InitCrudWritten ==
  /\ now = StartNow
  /\ last = Idle
  /\ mounted = TRUE
  /\ page = "dashboard"
  /\ filter = "all"
  /\ err = ""
  /\ users = <<demo(StartNow - HoursPerDay), ann>>
  /\ \/ /\ user = ann
        /\ \/ tasks = <<>> /\ stored = NoKeys
           \/ tasks = annsTasks /\ stored = saveTasks(NoKeys, ann.id, annsTasks)
     \/ /\ user = demo(StartNow - HoursPerDay)
        /\ tasks = <<>>
        /\ stored = saveTasks(NoKeys, ann.id, annsTasks)
  /\ session = user

SpecCrudWritten == InitCrudWritten /\ [][NextCrud]_vars

(***************************************************************************)
(* DashboardPage: the filter and the list the page displays.               *)
(***************************************************************************)
Filters == {"all", "active", "done"}

IsCompleted(t) == t.completed

\* tasks.filter(t => { if (filter === "active") return !t.completed;
\*                     if (filter === "done") return t.completed; return true; })
filtered(ts, f) ==
  IF f = "active" THEN SelectSeq(ts, NotCompleted)
  ELSE IF f = "done" THEN SelectSeq(ts, IsCompleted)
  ELSE ts

\* Variant: the whole filtered list is handed to the ranking.
sortedRankingAll(fl, c1, c2) == suggestOrder(fl, c1, c2)

\* AIEngine.suggestOrder(filtered.filter(t => !t.completed))
\*   .concat(filtered.filter(t => t.completed)): the outcomes, one for each
\* outcome of the ranking.
sortedOf(fl, c1, c2) ==
  { ranked \o SelectSeq(fl, IsCompleted) :
      ranked \in suggestOrder(SelectSeq(fl, NotCompleted), c1, c2) }

\* setFilter(f), the three buttons above the list.
setFilter ==
  \E f \in Filters :
    /\ DashboardShown
    /\ last = Idle
    /\ filter # f
    /\ filter' = f
    /\ UNCHANGED <<now, tasks, last, mounted, user, page, err, dbVars>>

\* A render of DashboardPage: const filtered, const sorted.
DashboardSorted ==
  LET fl == filtered(tasks, filter)
      pending == SelectSeq(fl, NotCompleted)
  IN \E c2 \in {now, now + 1} :
       /\ DashboardShown
       /\ last = Idle
       /\ c2 <= LastNow
       /\ \E out \in sortedOf(fl, now, c2), reads \in SortReads(pending, now, c2) :
            last' = [op |-> "DashboardSorted", input |-> tasks, entry |-> now,
                     reads |-> reads, out |-> out,
                     filter |-> filter]
       /\ now' = c2
       /\ UNCHANGED <<tasks, appVars, dbVars>>

\* Tasks as the dashboard lists them: pending and completed ones, of
\* different scores, one with a deadline that is no date.
DashShapes ==
  { s \in TaskShapes : s.title \in {"dueNow", "noDeadline", "badDeadline",
                                    "doneToday", "doneYesterday"} }

DashLists ==
  UNION { { [i \in 1..n |-> WithId(f[i], i)] : f \in [1..n -> DashShapes] } : n \in 0..MaxTasks }

\* ann signed in, her list on the dashboard as it is stored.
InitDash ==
  /\ now = StartNow
  /\ last = Idle
  /\ mounted = TRUE
  /\ page = "dashboard"
  /\ filter = "all"
  /\ err = ""
  /\ users = <<demo(StartNow - HoursPerDay), ann>>
  /\ user = ann
  /\ session = ann
  /\ tasks \in DashLists
  /\ stored = saveTasks(NoKeys, ann.id, tasks)

NextDash ==
  \/ Tick
  \/ Discard
  \/ setFilter
  \/ DashboardSorted

SpecDash == InitDash /\ [][NextDash]_vars

(***************************************************************************)
(* Properties                                                              *)
(***************************************************************************)
RankOps == {"suggestOrder", "AISuggestionsPage"}

IsPermutation(a, b) ==
  /\ Len(a) = Len(b)
  /\ \E p \in Permutations(DOMAIN a) : \A i \in DOMAIN a : a[i] = b[p[i]]

\* The clock did not move during the last call.
FixedNow == \A i \in DOMAIN last.reads : last.reads[i] = last.entry

\* C1 (as stated): whatever collection the Ranking Function is given, also
\* one that holds completed tasks, its result is exactly the tasks with
\* completed = false, each once, and no completed task.
C1_RankedArePendingOnly ==
  last.op \in RankOps =>
    /\ IsPermutation(last.out, SelectSeq(last.input, NotCompleted))
    /\ \A i \in DOMAIN last.out : ~last.out[i].completed

\* C1 (amended): the Ranking Function returns every task it is given,
\* completed or not, each exactly once; its result holds exactly the
\* non-completed tasks where the caller passes only those, as
\* AISuggestionsPage does.
C1_RankedArePermutationOfInput ==
  /\ last.op \in RankOps => IsPermutation(last.out, last.input)
  /\ last.op = "AISuggestionsPage" =>
       /\ IsPermutation(last.out, SelectSeq(tasks, NotCompleted))
       /\ \A i \in DOMAIN last.out : ~last.out[i].completed

\* A ranking of a collection that holds a completed task, which the sort
\* has reordered and which still holds the completed task.
C1_Witness ==
  /\ last.op = "suggestOrder"
  /\ \E i \in DOMAIN last.input : last.input[i].completed
  /\ \E i \in DOMAIN last.out : last.out[i].completed
  /\ last.out # last.input

\* The score as the claim defines it: undefined (no value) for a deadline
\* that is no point in time and for one exactly a day in the past.
ClaimedScoreDefined(t, clock) ==
  t.deadline.kind = "at" => t.deadline.t - clock + HoursPerDay # 0

\* The claim's score is a real number: the rational n/d with d > 0.
Ratio(n, d) == IF d < 0 THEN [n |-> -n, d |-> -d] ELSE [n |-> n, d |-> d]
RatioAdd(a, b) == Ratio((a.n * b.d) + (b.n * a.d), a.d * b.d)
RatioTimes(a, n, d) == Ratio(a.n * n, a.d * d)
RatioSign(a) == IF a.n > 0 THEN 1 ELSE IF a.n < 0 THEN -1 ELSE 0
RatioMinus(a, b) == RatioAdd(a, Ratio(-b.n, b.d))

ClaimedScore(t, clock) ==
  LET priorityWeight == IF t.priority = "high" THEN 3
                        ELSE IF t.priority = "medium" THEN 2 ELSE 1
      urgency == IF t.deadline.kind = "absent" THEN Ratio(0, 1)
                 ELSE Ratio(HoursPerDay, t.deadline.t - clock + HoursPerDay)
      efficiency == IF t.estimatedTime.kind = "at" /\ t.estimatedTime.t > 0
                    THEN Ratio(1, t.estimatedTime.t) ELSE Ratio(0, 1)
  IN RatioAdd(RatioAdd(Ratio(priorityWeight * 2, 5), RatioTimes(urgency, 2, 5)),
              RatioTimes(efficiency, 1, 5))

\* C2: with the clock fixed, the result of the Ranking Function is sorted by
\* non-increasing score, the score being priorityWeight*0.4 + urgency*0.4 +
\* efficiency*0.2 with efficiency 0 unless estimatedTime > 0.
C2_SortedByClaimedScore ==
  ( /\ last.op \in RankOps
    /\ FixedNow
    /\ \A i \in DOMAIN last.input :
         /\ last.input[i].deadline.kind # "invalid"
         /\ ClaimedScoreDefined(last.input[i], last.entry) ) =>
    \A i \in 1..(Len(last.out) - 1) :
      RatioSign(RatioMinus(ClaimedScore(last.out[i], last.entry),
                           ClaimedScore(last.out[i + 1], last.entry))) >= 0

\* C3: a non-completed task with a deadline gets exactly one outcome from
\* the hours h left until the deadline: overdue for h < 0, urgent for
\* 0 <= h < 24, soon for 24 <= h < 72, no alert for h >= 72.
C3_AlertClassification ==
  last.op = "getNotifications" =>
    \A i \in DOMAIN last.input :
      LET t == last.input[i]
          h == t.deadline.t - last.reads[1]
          mine == {k \in DOMAIN last.out : last.out[k].task = t}
          Only(type) == /\ Cardinality(mine) = 1
                        /\ \A k \in mine : last.out[k].type = type
      IN (~t.completed /\ t.deadline.kind = "at") =>
           /\ h < 0 => Only("overdue")
           /\ (0 <= h /\ h < 24) => Only("urgent")
           /\ (24 <= h /\ h < 72) => Only("soon")
           /\ h >= 72 => mine = {}

\* One call that classifies a task at exactly 0 hours as urgent, one at
\* exactly 24 hours as soon, and gives none for one at exactly 72 hours.
C3_Witness ==
  /\ last.op = "getNotifications"
  /\ \E i, j, k \in DOMAIN last.input :
       /\ ~last.input[i].completed /\ last.input[i].deadline = At(last.reads[1])
       /\ ~last.input[j].completed /\ last.input[j].deadline = At(last.reads[1] + 24)
       /\ ~last.input[k].completed /\ last.input[k].deadline = At(last.reads[1] + 72)
       /\ \E a \in DOMAIN last.out :
            last.out[a].task = last.input[i] /\ last.out[a].type = "urgent"
       /\ \E a \in DOMAIN last.out :
            last.out[a].task = last.input[j] /\ last.out[a].type = "soon"
       /\ \A a \in DOMAIN last.out : last.out[a].task # last.input[k]

\* C4: the alerts are, in input order, one for each task that is not
\* completed, has a deadline and is less than 72 hours from it; each alert
\* carries its task; completed tasks and tasks without deadline give none.
C4_AlertsFollowInputOrder ==
  last.op = "getNotifications" =>
    LET Alerting(t) == /\ ~t.completed
                       /\ t.deadline.kind = "at"
                       /\ t.deadline.t - last.reads[1] < 72
    IN [k \in DOMAIN last.out |-> last.out[k].task] = SelectSeq(last.input, Alerting)

\* Two alerts, in input order, from a collection that holds between the two
\* alerting tasks a completed task with a deadline inside the window.
C4_Witness ==
  /\ last.op = "getNotifications"
  /\ Len(last.input) = 3
  /\ Len(last.out) = 2
  /\ last.out[1].task = last.input[1]
  /\ last.out[2].task = last.input[3]
  /\ last.input[2].completed
  /\ last.input[2].deadline.kind = "at"
  /\ last.input[2].deadline.t - last.reads[1] < 72

\* The rule the claim selects at the instant n.
ClaimedTipRule(ts, n) ==
  LET I == DOMAIN ts
      overdue == {i \in I : ~ts[i].completed /\ ts[i].deadline.kind = "at"
                             /\ ts[i].deadline.t < n}
      highPending == {i \in I : ~ts[i].completed /\ ts[i].priority = "high"}
      doneToday == {i \in I : ts[i].completedAt.kind = "at"
                               /\ ts[i].completedAt.t \div HoursPerDay = n \div HoursPerDay}
      pending == {i \in I : ~ts[i].completed}
  IN IF overdue # {} THEN "overdue"
     ELSE IF Cardinality(highPending) > 2 THEN "highPending"
     ELSE IF Cardinality(doneToday) >= 3 THEN "completedToday"
     ELSE IF pending = {} THEN "allClear"
     ELSE "fallback"

\* C5: the Tip Generator returns one non-empty message, that of the first
\* rule that matches, in the order overdue, high-priority backlog, three
\* completions today, all clear, fallback; "now" and "today" being those of
\* the call (of some one instant between its entry and its return).
C5_TipFollowsRuleOrder ==
  last.op = "getProductivityTip" =>
    /\ last.out.text # ""
    /\ \E n \in last.entry..now : last.out.rule = ClaimedTipRule(last.input, n)

\* C6: total is the number of tasks, completed the number of completed
\* tasks, and rate the integer nearest to completed/total*100 (halves up),
\* within 0..100; 0 for no tasks, 100 when every task is completed.
C6_RateIsRoundedPercentage ==
  last.op = "getAnalytics" =>
    LET total == last.out.total
        completed == last.out.completed
        rate == last.out.rate
    IN /\ total = Len(last.input)
       /\ completed = Cardinality({i \in DOMAIN last.input : last.input[i].completed})
       /\ rate \in 0..100
       /\ total = 0 => rate = 0
       /\ (total > 0 /\ completed = total) => rate = 100
       /\ total > 0 => /\ ((2 * rate) - 1) * total <= 200 * completed
                       /\ 200 * completed < ((2 * rate) + 1) * total

\* C7: the trend has 7 records, oldest first; record i (0..6) is for the
\* local calendar date 6 - i days before today and counts the tasks whose
\* completedAt, and those whose createdAt, falls on that date; "today"
\* being the date of the call (of some one instant between its entry and
\* its return).
C7_TrendByCalendarDate ==
  last.op = "getAnalytics" =>
    LET trend == last.out.completionTrend
        ts == last.input
    IN /\ Len(trend) = 7
       /\ \E n \in last.entry..now :
            \A i \in 0..6 :
              LET date == (n \div HoursPerDay) - (6 - i)
              IN /\ trend[i + 1].day = date % 7
                 /\ trend[i + 1].completed =
                      Cardinality({k \in DOMAIN ts : ts[k].completedAt.kind = "at"
                          /\ ts[k].completedAt.t \div HoursPerDay = date})
                 /\ trend[i + 1].added =
                      Cardinality({k \in DOMAIN ts : ts[k].createdAt \div HoursPerDay = date})

\* C8: within one call every value is computed against one and the same
\* reading of the clock, the one at entry.
C8_OneClockReadingPerCall ==
  \A i \in DOMAIN last.reads : last.reads[i] = last.entry

WithoutDeadline(t) == [t EXCEPT !.deadline = Absent]

\* C9: a task whose deadline is no valid point in time is treated like the
\* same task without deadline: its urgency is 0, it takes the rank of the
\* copy without deadline, and it gets no alert.
C9_InvalidDeadlineAsNoDeadline ==
  /\ last.op \in RankOps =>
       /\ \A i \in DOMAIN last.input :
            last.input[i].deadline.kind = "invalid" =>
              NumEq(Urgency(last.input[i], last.entry), Zero)
       /\ FixedNow =>
            [i \in DOMAIN last.out |-> WithoutDeadline(last.out[i])]
              \in suggestOrder([i \in DOMAIN last.input |->
                                  IF last.input[i].deadline.kind = "invalid"
                                  THEN WithoutDeadline(last.input[i])
                                  ELSE last.input[i]],
                               last.entry, last.entry)
  /\ last.op = "getNotifications" =>
       \A k \in DOMAIN last.out : last.out[k].task.deadline.kind # "invalid"

\* C10: a task whose estimatedTime is missing, zero or negative has
\* efficiency 0: it scores like the same task with estimatedTime = 0.
C10_NonPositiveEstimateScoresAsZero ==
  last.op \in RankOps =>
    \A i \in DOMAIN last.input :
      LET t == last.input[i]
      IN (t.estimatedTime.kind = "absent" \/ t.estimatedTime.t <= 0) =>
           NumEq(ScoreOf(t, last.entry),
                 ScoreOf([t EXCEPT !.estimatedTime = At(0)], last.entry))

\* C11: of two non-completed tasks with the same priority and the same
\* estimatedTime, the one with the earlier deadline (past or not) is ranked
\* before the one with the later deadline, and one with a deadline is ranked
\* before its copy without deadline.
C11_CloserDeadlineRanksNoLater ==
  last.op \in RankOps =>
    \A i, j \in DOMAIN last.out :
      LET a == last.out[i]
          b == last.out[j]
      IN ( /\ ~a.completed /\ ~b.completed
           /\ a.priority = b.priority
           /\ a.estimatedTime = b.estimatedTime
           /\ a.deadline.kind = "at"
           /\ \/ b.deadline.kind = "absent"
              \/ b.deadline.kind = "at" /\ a.deadline.t < b.deadline.t ) => i < j

\* C12: with the clock fixed, a second call of the Ranking Function on the
\* unchanged collection returns the sequence the first call returned, and
\* the Ranking Function applied to its own result returns that result.
C12_RankingIsIdempotent ==
  /\ last.op = "suggestOrderAgain" => last.out = last.first
  /\ last.op = "suggestOrderOnResult" => last.out = last.input

\* The place of task t in the sequence ts.
PlaceOf(ts, t) == CHOOSE k \in DOMAIN ts : ts[k] = t

\* score(a) = score(b) as numbers, at the clock reading c.
EqualScores(a, b, c) ==
  /\ ScoreOf(a, c).k # "nan"
  /\ NumEq(ScoreOf(a, c), ScoreOf(b, c))

\* C13: two non-completed tasks whose scores are equal (at the time of the
\* call, from its entry to its return) keep their input order in the result
\* of the Ranking Function.
C13_EqualScoresKeepInputOrder ==
  last.op \in RankOps =>
    \A i, j \in DOMAIN last.input :
      LET a == last.input[i]
          b == last.input[j]
      IN ( /\ i < j
           /\ ~a.completed /\ ~b.completed
           /\ \A c \in last.entry..now : EqualScores(a, b, c) ) =>
           PlaceOf(last.out, a) < PlaceOf(last.out, b)

EngineOps == {"suggestOrder", "suggestOrderAgain", "getNotifications",
              "getProductivityTip", "getAnalytics"}

\* C14: after a call of suggestOrder, getProductivityTip, getNotifications
\* or getAnalytics the collection of the caller is the sequence that was
\* given to the call: same length, same order, same field values.
C14_EngineLeavesCollectionAsGiven ==
  last.op \in EngineOps => tasks = last.input

\* A ranking that returned another order than it was given, next to a
\* collection that is still in the order given.
C14_Witness ==
  /\ last.op = "suggestOrder"
  /\ Len(last.input) = MaxTasks
  /\ last.out # last.input
  /\ tasks = last.input

\* C15: given the empty collection, the Ranking Function and the Alert
\* Classifier return the empty sequence, the Tip Generator returns the
\* all-clear message, and the Analytics Aggregator returns total = 0,
\* completed = 0, rate = 0, three priority buckets of count 0 and a trend
\* of 7 entries whose completed and added counts are 0.
C15_EmptyCollectionResults ==
  last.input = <<>> =>
    /\ last.op \in RankOps => last.out = <<>>
    /\ last.op = "getNotifications" => last.out = <<>>
    /\ last.op = "getProductivityTip" =>
         /\ last.out.rule = "allClear"
         /\ last.out.text = "All clear! Perfect time to plan ahead."
    /\ last.op = "getAnalytics" =>
         /\ last.out.total = 0
         /\ last.out.completed = 0
         /\ last.out.rate = 0
         /\ Len(last.out.byPriority) = 3
         /\ \A k \in 1..3 : last.out.byPriority[k].value = 0
         /\ Len(last.out.completionTrend) = 7
         /\ \A k \in 1..7 : /\ last.out.completionTrend[k].completed = 0
                            /\ last.out.completionTrend[k].added = 0

\* The Tip Generator called with no task at all, answering.
C15_Witness ==
  /\ last.op = "getProductivityTip"
  /\ tasks = <<>>
  /\ last.input = <<>>
  /\ last.out.rule = "allClear"

\* C16: the priority histogram of getAnalytics is three buckets, High,
\* Medium, Low in this order, each with the number of tasks of that
\* priority; a task of any other priority is in none, so the three counts
\* add up to total minus the number of such tasks.
C16_PriorityHistogram ==
  last.op = "getAnalytics" =>
    LET ts == last.input
        h == last.out.byPriority
        NumberOf(p) == Cardinality({i \in DOMAIN ts : ts[i].priority = p})
        unrecognized == {i \in DOMAIN ts : ts[i].priority \notin {"high", "medium", "low"}}
    IN /\ Len(h) = 3
       /\ h[1].name = "High" /\ h[1].value = NumberOf("high")
       /\ h[2].name = "Medium" /\ h[2].value = NumberOf("medium")
       /\ h[3].name = "Low" /\ h[3].value = NumberOf("low")
       /\ h[1].value + h[2].value + h[3].value
            = last.out.total - Cardinality(unrecognized)

\* A histogram of a collection with a task whose priority is none of the
\* three, next to one task of the priority low: Low counts 1 of total 3.
C16_Witness ==
  /\ last.op = "getAnalytics"
  /\ last.out.total = 3
  /\ \E i \in DOMAIN last.input : last.input[i].priority = ""
  /\ last.out.byPriority[3].value = 1
  /\ last.out.byPriority[1].value + last.out.byPriority[2].value = 1

\* The five sample tasks, whenever they were built.
IsSampleTasks(ts) ==
  \E entry \in (StartNow - HoursPerDay)..LastNow, jumpAt \in 0..SeedPlaces :
    ts = sampleTasks(entry, jumpAt)

\* C20: after the first mount of the App on an empty storage (no users, no
\* session) the user demo@task.com exists and the task list stored for the
\* user id "demo" is the five sample tasks; and a login with demo@task.com
\* and demo123 shows the five sample tasks.
C20_DemoSeededOnFirstLoad ==
  /\ ( /\ last.op = "mount"
       /\ last.input.users = <<>>
       /\ last.input.session = Null ) =>
       /\ HasDemo(users)
       /\ IsSampleTasks(getTasks("demo"))
  /\ ( /\ last.op = "handleSubmit"
       /\ last.out = "accepted"
       /\ last.input.tab = "login"
       /\ last.input.email = DemoEmail
       /\ last.input.pass = "demo123" ) =>
       IsSampleTasks(tasks)

\* C17: in every state reached by addTask, updateTask, toggleTask and
\* deleteTask from the empty list or from the sample tasks, a task has a
\* completedAt if and only if it is completed; toggleTask gives the task it
\* completes the current time as completedAt, takes the completedAt from
\* the task it un-completes, and leaves the other tasks as they are.
C17_CompletedAtIffCompleted ==
  /\ \A i \in DOMAIN tasks : (tasks[i].completedAt.kind = "at") <=> tasks[i].completed
  /\ last.op = "toggleTask" =>
       \A k \in DOMAIN last.input :
         LET before == last.input[k]
             after == last.out[k]
         IN /\ (before.id = last.id /\ ~before.completed) =>
                 /\ after.completed
                 /\ after.completedAt.kind = "at"
                 /\ after.completedAt.t \in last.reads[1]..last.reads[2]
            /\ (before.id = last.id /\ before.completed) =>
                 /\ ~after.completed
                 /\ after.completedAt.kind = "absent"
            /\ before.id # last.id => after = before

\* The last toggleTask completed a task that was not completed, with a
\* reading of its call as completedAt, in a list in which an earlier
\* toggleTask un-completed a sample task that was seeded completed.
C17_Witness ==
  /\ last.op = "toggleTask"
  /\ \E k \in DOMAIN last.input :
       /\ last.input[k].id = last.id
       /\ ~last.input[k].completed
       /\ last.input[k].completedAt = Absent
       /\ tasks[k].completed
       /\ tasks[k].completedAt.kind = "at"
       /\ tasks[k].completedAt.t \in last.reads[1]..last.reads[2]
  /\ \E k \in DOMAIN tasks :
       /\ tasks[k].id \in {"t3", "t5"}
       /\ ~tasks[k].completed
       /\ tasks[k].completedAt = Absent

\* C18: no two tasks of the list have the same id, also when two were added
\* on the same reading of the clock; updateTask and toggleTask leave every
\* id where it was, toggleTask changes exactly one task and deleteTask
\* removes exactly one.
C18_IdsUniqueAndStable ==
  /\ \A i, j \in DOMAIN tasks : i # j => tasks[i].id # tasks[j].id
  /\ last.op \in {"updateTask", "toggleTask"} =>
       /\ Len(last.out) = Len(last.input)
       /\ \A k \in DOMAIN last.input : last.out[k].id = last.input[k].id
  /\ last.op = "toggleTask" =>
       Cardinality({k \in DOMAIN last.input : last.out[k] # last.input[k]}) = 1
  /\ last.op = "deleteTask" => Len(last.out) = Len(last.input) - 1

\* C19: updateTask, toggleTask and deleteTask leave the createdAt of every
\* task that stays in the list as it was, addTask that of every task that
\* was in the list; and every task with a completedAt has
\* createdAt <= completedAt.
C19_CreatedAtSetOnce ==
  /\ last.op \in {"updateTask", "toggleTask"} =>
       \A k \in DOMAIN last.input : last.out[k].createdAt = last.input[k].createdAt
  /\ last.op = "addTask" =>
       \A k \in DOMAIN last.input : last.out[k].createdAt = last.input[k].createdAt
  /\ last.op = "deleteTask" =>
       \A k \in DOMAIN last.out :
         \E m \in DOMAIN last.input :
           /\ last.input[m].id = last.out[k].id
           /\ last.input[m].createdAt = last.out[k].createdAt
  /\ \A i \in DOMAIN tasks :
       tasks[i].completedAt.kind = "at" => tasks[i].createdAt <= tasks[i].completedAt.t

\* A task that addTask made in this visit, completed by the last toggleTask
\* at a later reading of the clock than its createdAt, beside the task of
\* an earlier visit with its createdAt as it was.
C19_Witness ==
  /\ last.op = "toggleTask"
  /\ \E k \in DOMAIN tasks :
       /\ tasks[k].id = last.id
       /\ tasks[k].createdAt >= StartNow
       /\ ~last.input[k].completed
       /\ tasks[k].completedAt.kind = "at"
       /\ tasks[k].createdAt < tasks[k].completedAt.t
  /\ \E k \in DOMAIN tasks :
       /\ tasks[k].id = annsTasks[1].id
       /\ tasks[k].createdAt = annsTasks[1].createdAt

\* C21: the list the dashboard displays is a permutation of the tasks of
\* the current filter; every non-completed task in it precedes every
\* completed one; its non-completed part is a result of the Ranking
\* Function on the non-completed tasks of the filter alone, and its
\* completed part is the completed tasks of the filter in their order in
\* the list of tasks.
C21_DisplayListRankedThenCompleted ==
  last.op = "DashboardSorted" =>
    LET ts == last.input
        InFilter(t) == /\ last.filter = "active" => ~t.completed
                       /\ last.filter = "done" => t.completed
        fl == SelectSeq(ts, InFilter)
        out == last.out
        np == Cardinality({i \in DOMAIN fl : ~fl[i].completed})
    IN /\ IsPermutation(out, fl)
       /\ \A i, j \in DOMAIN out : (~out[i].completed /\ out[j].completed) => i < j
       /\ SubSeq(out, 1, np) \in
            suggestOrder(SelectSeq(fl, NotCompleted), last.entry, now)
       /\ SubSeq(out, np + 1, Len(out)) = SelectSeq(fl, IsCompleted)

\* Under the filter "all": a completed task of score 1.0 listed behind a
\* pending task of score 0.4, and in front of a second completed task that
\* follows it in the list of tasks.
C21_Witness ==
  /\ last.op = "DashboardSorted"
  /\ last.filter = "all"
  /\ Len(last.input) = 3
  /\ Len(last.out) = 3
  /\ last.input[1].title = "doneToday"
  /\ last.input[2].title = "noDeadline"
  /\ last.input[3].title = "doneYesterday"
  /\ last.out = <<last.input[2], last.input[1], last.input[3]>>

\* C22: after addTask, updateTask, deleteTask and toggleTask the list
\* stored under the key of the signed-in user is the new list of the App,
\* and the list stored under any other key is what it was; updateTask
\* changes nothing but title, description, priority, deadline and
\* estimatedTime of the one task being edited.
C22_PersistedListFollowsMemory ==
  last.op \in ListOps =>
    /\ tasks = last.out
    /\ getTasks(user.id) = tasks
    /\ DOMAIN stored = (DOMAIN last.store) \cup {user.id}
    /\ \A k \in DOMAIN last.store : k # user.id => stored[k] = last.store[k]
    /\ last.op = "updateTask" =>
         /\ Len(last.out) = Len(last.input)
         /\ Cardinality({k \in DOMAIN last.input : last.out[k] # last.input[k]}) <= 1
         /\ \A k \in DOMAIN last.input :
              LET before == last.input[k]
                  after == last.out[k]
              IN /\ after.id = before.id
                 /\ after.completed = before.completed
                 /\ after.createdAt = before.createdAt
                 /\ after.completedAt = before.completedAt
                 /\ before.id # last.id => after = before

\* C23: through mounts, reloads, registrations and sign-ins no two stored
\* users have the same email; and an attempt that is rejected, for an empty
\* email or password, an empty name on register, an email already
\* registered, or an email and password no stored user has, shows its
\* message and leaves the stored users, the stored session and the
\* signed-in user as they were.
C23_EmailsUniqueAndRejectsChangeNothing ==
  /\ \A i, j \in DOMAIN users : users[i].email = users[j].email => i = j
  /\ (last.op = "handleSubmit" /\ last.out = "rejected") =>
       /\ err # ""
       /\ users = last.before.users
       /\ session = last.before.session
       /\ user = last.before.user
  /\ last.op = "handleSubmit" =>
       LET in == last.input
           known == \E i \in DOMAIN last.before.users :
                      last.before.users[i].email = in.email
           match == \E i \in DOMAIN last.before.users :
                      /\ last.before.users[i].email = in.email
                      /\ last.before.users[i].pass = in.pass
       IN last.out = "rejected" <=>
            \/ in.email = "" \/ in.pass = ""
            \/ in.tab = "register" /\ (in.name = "" \/ known)
            \/ in.tab = "login" /\ ~match

\* A registration with the email of a stored user, under another password,
\* was rejected.
C23_Witness ==
  /\ last.op = "handleSubmit"
  /\ last.out = "rejected"
  /\ last.input.tab = "register"
  /\ last.input.email = "ann@task.com"
  /\ last.input.pass = "demo123"
  /\ last.input.name = "Ann"
  /\ err = "Email already registered."
  /\ Len(users) = 2

\* C24: a successful register or sign-in stores the user as the session;
\* loading the page again keeps the session, and the mount that follows
\* shows the user who was signed in before, with the list stored under that
\* user's key.  handleLogout clears the stored session, the user and the
\* list of the App and goes to the dashboard page, and the mount after the
\* next load shows the auth page, no user signed in.
C24_SessionRestoredOnReload ==
  /\ (last.op = "handleSubmit" /\ last.out = "accepted") =>
       /\ user # Null
       /\ session = user
  /\ last.op = "handleLogout" =>
       /\ session = Null
       /\ user = Null
       /\ tasks = <<>>
       /\ page = "dashboard"
  /\ last.op = "reload" => session = last.input.user
  /\ (last.op = "mount" /\ last.input.shown # Null) =>
       /\ user = last.input.shown.user
       /\ session = user
       /\ user # Null =>
            tasks = IF user.id \in DOMAIN stored THEN stored[user.id] ELSE <<>>
       /\ user = Null => tasks = <<>>

\* The demo user signed in, the page was loaded again, and the mount shows
\* the demo user with the five sample tasks stored for it.
C24_Witness ==
  /\ last.op = "mount"
  /\ last.input.shown # Null
  /\ last.input.shown.user # Null
  /\ user # Null
  /\ user.id = "demo"
  /\ Len(tasks) = 5
  /\ ann.id \in DOMAIN stored

====
